---- MODULE Spec2Model ----
(***************************************************************************)
(* Model of streamlit_app.py: the CSV ingestion function                   *)
(* process_uploaded_file and the gating of main() on its result.           *)
(*                                                                         *)
(* Text is modelled character by character: a string is a sequence of      *)
(* one-character strings, so that split, strip, startswith, substring      *)
(* search, upper-casing and the numeric and date parsers are computed, not *)
(* assumed.  Amounts are integers counted in hundredths.                   *)
(***************************************************************************)
EXTENDS Integers, Sequences, FiniteSets, TLC

VARIABLES
    uploaded_file,  \* the object st.sidebar.file_uploader returns: bytes and read position
    pc,             \* position of main() in the current script run
    df,             \* main's local df: the table process_uploaded_file returned
    session_df,     \* st.session_state.df
    cache,          \* the entry st.cache_data holds for process_uploaded_file
    last,           \* locals of the last executed body of process_uploaded_file
    propagated,     \* an exception escaped process_uploaded_file
    runs,           \* script runs started so far
    calls,          \* calls of process_uploaded_file made so far
    first_ret,      \* the table the first call returned
    df_filtered,    \* main's df_filtered
    valor_total     \* KPI of the current run

vars == <<uploaded_file, pc, df, session_df, cache, last, propagated, runs,
          calls, first_ret, df_filtered, valor_total>>

(***************************************************************************)
(* Bounds of the model.                                                    *)
(***************************************************************************)
MaxRows == 2    \* data rows of a generated file
MaxRuns == 2    \* script runs (the first run and reruns) of one session

(***************************************************************************)
(* Python str operations, on sequences of characters.                      *)
(***************************************************************************)
LF  == "\n"                 \* the line-feed character
BSN == <<"\\", "n">>        \* the two characters backslash, n: the literal '\\n'

Whitespace == {" ", "\t", "\n", "\r"}

StartsWith(s, p) ==
    /\ Len(s) >= Len(p)
    /\ SubSeq(s, 1, Len(p)) = p

Contains(s, p) ==
    \E i \in 1..(Len(s) - Len(p) + 1) : SubSeq(s, i, i + Len(p) - 1) = p

RECURSIVE LStrip(_)
LStrip(s) ==
    IF s # <<>> /\ Head(s) \in Whitespace THEN LStrip(Tail(s)) ELSE s

RECURSIVE RStrip(_)
RStrip(s) ==
    IF s # <<>> /\ s[Len(s)] \in Whitespace
    THEN RStrip(SubSeq(s, 1, Len(s) - 1))
    ELSE s

Strip(s) == RStrip(LStrip(s))

MinOf(S) == CHOOSE i \in S : \A j \in S : i <= j

\* the first index >= from where d occurs in s, Len(s) + 1 when there is none
Find(s, d, from) ==
    LET M == {i \in from..(Len(s) - Len(d) + 1) : SubSeq(s, i, i + Len(d) - 1) = d}
    IN IF M = {} THEN Len(s) + 1 ELSE MinOf(M)

RECURSIVE SplitFrom(_, _, _)
SplitFrom(s, d, start) ==
    LET i == Find(s, d, start)
    IN IF i > Len(s) THEN <<SubSeq(s, start, Len(s))>>
       ELSE <<SubSeq(s, start, i - 1)>> \o SplitFrom(s, d, i + Len(d))

\* str.split(d) for a non-empty separator d
Split(s, d) == SplitFrom(s, d, 1)

RECURSIVE Join(_, _)
\* d.join(parts)
Join(parts, d) ==
    IF parts = <<>> THEN <<>>
    ELSE IF Len(parts) = 1 THEN parts[1]
    ELSE parts[1] \o d \o Join(Tail(parts), d)

\* str.replace(c, r) for a one-character c
Replace(s, c, r) == Join(Split(s, <<c>>), r)

LowerCase == <<"a", "b", "c", "d", "e", "f", "g", "h", "i", "j", "k", "l", "m",
               "n", "o", "p", "q", "r", "s", "t", "u", "v", "w", "x", "y", "z",
               "ç", "ã", "í">>
UpperCase == <<"A", "B", "C", "D", "E", "F", "G", "H", "I", "J", "K", "L", "M",
               "N", "O", "P", "Q", "R", "S", "T", "U", "V", "W", "X", "Y", "Z",
               "Ç", "Ã", "Í">>

UpperChar(c) ==
    IF \E i \in 1..Len(LowerCase) : LowerCase[i] = c
    THEN UpperCase[CHOOSE i \in 1..Len(LowerCase) : LowerCase[i] = c]
    ELSE c

\* str.upper()
Upper(s) == [i \in 1..Len(s) |-> UpperChar(s[i])]

\* Let(e, LAMBDA x : F) is F with x naming the value of e: a local of the code
Let(e, F(_)) == CHOOSE y \in {F(x) : x \in {e}} : TRUE

SelectIdx(n, Test(_)) ==
    LET RECURSIVE Go(_)
        Go(i) == IF i > n THEN <<>>
                 ELSE (IF Test(i) THEN <<i>> ELSE <<>>) \o Go(i + 1)
    IN Go(1)

(***************************************************************************)
(* Values of the data frame.  A text cell is a character sequence; the     *)
(* missing value NaN is a sequence no text can equal.  A number is a       *)
(* record: not-a-number, or a value in hundredths.  A date is a record:    *)
(* NaT, or day, month, year.                                               *)
(***************************************************************************)
NaN == <<"NaN">>
NumNaN == [nan |-> TRUE, v |-> 0]
Num(v) == [nan |-> FALSE, v |-> v]
NaT == [nat |-> TRUE, d |-> 0, m |-> 0, y |-> 0]

Digits == <<"0", "1", "2", "3", "4", "5", "6", "7", "8", "9">>
IsDigit(c) == \E i \in 1..10 : Digits[i] = c
DigitVal(c) == (CHOOSE i \in 1..10 : Digits[i] = c) - 1
AllDigits(s) == \A i \in 1..Len(s) : IsDigit(s[i])

RECURSIVE IntVal(_)
IntVal(s) ==
    IF s = <<>> THEN 0
    ELSE 10 * IntVal(SubSeq(s, 1, Len(s) - 1)) + DigitVal(s[Len(s)])

(***************************************************************************)
(* pd.to_numeric(..., errors='coerce') on one string: an optional sign,    *)
(* digits and at most one decimal point, at least one digit; anything else *)
(* is NaN.  The value is kept in hundredths (two decimals).                *)
(***************************************************************************)
to_numeric(s) ==
    LET t == Strip(s)
        signed == t # <<>> /\ t[1] \in {"-", "+"}
        body == IF signed THEN Tail(t) ELSE t
        parts == Split(body, <<".">>)
        ip == parts[1]
        fp == IF Len(parts) = 2 THEN parts[2] ELSE <<>>
        ok == /\ Len(parts) <= 2
              /\ AllDigits(ip) /\ AllDigits(fp)
              /\ Len(ip) + Len(fp) > 0
        frac == IF Len(fp) = 0 THEN 0
                ELSE IF Len(fp) = 1 THEN 10 * DigitVal(fp[1])
                ELSE 10 * DigitVal(fp[1]) + DigitVal(fp[2])
        mag == 100 * IntVal(ip) + frac
    IN IF ~ok THEN NumNaN
       ELSE IF t[1] = "-" THEN Num(0 - mag) ELSE Num(mag)

(***************************************************************************)
(* pd.to_datetime(..., format='%d-%m-%Y', errors='coerce') on one cell:    *)
(* day and month of one or two digits, a year of four digits, separated by *)
(* '-', and a day that exists in that month; anything else is NaT.         *)
(***************************************************************************)
IsLeap(y) == (y % 4 = 0 /\ y % 100 # 0) \/ y % 400 = 0

DaysInMonth(m, y) ==
    IF m = 2 THEN (IF IsLeap(y) THEN 29 ELSE 28)
    ELSE IF m \in {4, 6, 9, 11} THEN 30 ELSE 31

to_datetime(cell) ==
    IF cell = NaN THEN NaT
    ELSE LET parts == Split(cell, <<"-">>)
             shape == /\ Len(parts) = 3
                      /\ Len(parts[1]) \in {1, 2} /\ AllDigits(parts[1])
                      /\ Len(parts[2]) \in {1, 2} /\ AllDigits(parts[2])
                      /\ Len(parts[3]) = 4 /\ AllDigits(parts[3])
             d == IntVal(parts[1])
             m == IntVal(parts[2])
             y == IntVal(parts[3])
         IN IF shape /\ y >= 1 /\ m \in 1..12 /\ d >= 1 /\ d <= DaysInMonth(m, y)
            THEN [nat |-> FALSE, d |-> d, m |-> m, y |-> y]
            ELSE NaT

(***************************************************************************)
(* pd.read_csv(io.StringIO(text), sep=sep, quotechar='"',                  *)
(* on_bad_lines='skip', engine='python').  The text is cut at line feeds,  *)
(* each line is cut at sep outside double quotes, blank lines are dropped, *)
(* the first remaining line is the header.  No line at all raises          *)
(* EmptyDataError.  When the first data line has more fields than the      *)
(* header, its leading extra fields become the index; a line with more     *)
(* fields than that is a bad line and is skipped; a shorter line is padded *)
(* with NaN; a cell that spells a missing value is read as NaN.  Header    *)
(* names are taken to be non-empty and distinct.                           *)
(***************************************************************************)
RECURSIVE CsvFields(_, _, _)
\* the fields of one line from its index i on: a field that opens with the
\* quote character runs to the closing quote, where sep does not cut
CsvFields(line, sep, i) ==
    IF i > Len(line) THEN << <<>> >>
    ELSE IF line[i] = "\""
    THEN LET q == Find(line, <<"\"">>, i + 1)
             e == Find(line, <<sep>>, q + 1)
             field == SubSeq(line, i + 1, q - 1) \o SubSeq(line, q + 1, e - 1)
         IN IF e > Len(line) THEN <<field>>
            ELSE <<field>> \o CsvFields(line, sep, e + 1)
    ELSE LET e == Find(line, <<sep>>, i)
         IN IF e > Len(line) THEN <<SubSeq(line, i, Len(line))>>
            ELSE <<SubSeq(line, i, e - 1)>> \o CsvFields(line, sep, e + 1)

NaValues == { <<>>, <<"N", "A">>, <<"N", "/", "A">>, <<"n", "/", "a">>,
              <<"#", "N", "/", "A">>, <<"#", "N", "A">>, <<"<", "N", "A", ">">>,
              <<"N", "a", "N">>, <<"n", "a", "n">>, <<"-", "N", "a", "N">>,
              <<"-", "n", "a", "n">>, <<"N", "U", "L", "L">>, <<"n", "u", "l", "l">>,
              <<"N", "o", "n", "e">> }

NaConv(cell) == IF cell \in NaValues THEN NaN ELSE cell

IsEmptyLine(fields) == Len(fields) = 1 /\ Strip(fields[1]) = <<>>

\* the lines of the text as records of fields, blank lines dropped
csv_records(text, sep) ==
    Let(Split(text, <<LF>>), LAMBDA raw :
        SelectSeq([i \in 1..Len(raw) |-> CsvFields(raw[i], sep, 1)],
                  LAMBDA fields : ~IsEmptyLine(fields)))

\* the number of leading fields of each data line that form the index
implicit_index(header, body) ==
    IF body # <<>> /\ Len(body[1]) > Len(header)
    THEN Len(body[1]) - Len(header)
    ELSE 0

\* the n cells of one data line, after its index fields
pad_row(r, n, implicit) ==
    [j \in 1..n |-> IF j + implicit <= Len(r) THEN NaConv(r[j + implicit]) ELSE NaN]

frame_of(header, body, implicit) ==
    Let(SelectSeq(body, LAMBDA r : Len(r) <= Len(header) + implicit), LAMBDA good :
        [raises |-> FALSE, columns |-> header,
         rows |-> [k \in 1..Len(good) |-> pad_row(good[k], Len(header), implicit)],
         n_lines |-> Len(body), n_bad_lines |-> Len(body) - Len(good)])

read_csv(text, sep) ==
    Let(csv_records(text, sep), LAMBDA recs :
        IF recs = <<>>
        THEN [raises |-> TRUE, columns |-> <<>>, rows |-> <<>>, n_lines |-> 0,
              n_bad_lines |-> 0]
        ELSE frame_of(recs[1], Tail(recs), implicit_index(recs[1], Tail(recs))))

(***************************************************************************)
(* String literals of process_uploaded_file.                               *)
(***************************************************************************)
SEP_PREFIX == <<"s", "e", "p", "=">>
COL_DATA == <<"D", "a", "t", "a">>
VALOR_EXATO ==
    <<"V", "a", "l", "o", "r", " ", "[", "D", "o", "c", "u", "m",
      "e", "n", "t", "o", "s", " ", "G", "C", " ", "L", "i", "n", "]">>
PAT_VALOR == <<"V", "a", "l", "o", "r">>
PAT_FAMILIA == <<"F", "a", "m", "í", "l", "i", "a">>
COL_DOC == <<"D", "o", "c", ".">>
PAT_DOC == <<"D", "o", "c">>
PAT_DOCUMENT == <<"D", "o", "c", "u", "m", "e", "n", "t">>
PAT_VENDEDOR == <<"V", "e", "n", "d", "e", "d", "o", "r">>
PAT_NOME == <<"N", "o", "m", "e">>
PAT_CLIENTE == <<"C", "l", "i", "e", "n", "t", "e">>
PAT_ANULACAO == <<"a", "n", "u", "l", "a", "ç", "ã", "o">>
SEM_FAMILIA == <<"S", "E", "M", "_", "F", "A", "M", "I", "L", "I", "A">>
SEM_VENDEDOR ==
    <<"S", "E", "M", "_", "V", "E",
      "N", "D", "E", "D", "O", "R">>
SEM_CLIENTE == <<"S", "E", "M", "_", "C", "L", "I", "E", "N", "T", "E">>
NC == <<"N", "C">>
STR_NAN == <<"n", "a", "n">>

(***************************************************************************)
(* process_uploaded_file, step by step.                                    *)
(***************************************************************************)
FirstIdx(n, Test(_)) ==
    IF \E i \in 1..n : Test(i)
    THEN CHOOSE i \in 1..n : Test(i) /\ \A j \in 1..(i - 1) : ~Test(j)
    ELSE 0

\* lines = content.split('\\n')
lines_of(content) == Split(content, BSN)

\* data_lines = [line for line in lines[1:] if line.strip() and not line.startswith('sep=')]
data_lines_of(lines) ==
    LET rest == Tail(lines)
        keep == SelectIdx(Len(rest), LAMBDA i : /\ Strip(rest[i]) # <<>>
                                                /\ ~StartsWith(rest[i], SEP_PREFIX))
    IN [k \in 1..Len(keep) |-> rest[keep[k]]]

\* csv_content = '\\n'.join(data_lines)
csv_content_of(data_lines) == Join(data_lines, BSN)

\* for sep in [',', ';']: the first separator read_csv does not raise on,
\* "" when it raises on both (the for's else branch)
detect_sep(csv_content) ==
    IF ~read_csv(csv_content, ",").raises THEN ","
    ELSE IF ~read_csv(csv_content, ";").raises THEN ";"
    ELSE ""

\* df.columns = df.columns.str.strip().str.replace('"', '')
clean_columns(columns) ==
    [j \in 1..Len(columns) |-> Replace(Strip(columns[j]), "\"", <<>>)]

\* df.get('Data', df.iloc[:, 0]): the column named Data, else the first column
date_column(columns) ==
    LET j == FirstIdx(Len(columns), LAMBDA i : columns[i] = COL_DATA)
    IN IF j # 0 THEN j ELSE 1

\* the same choice without the test for the exact label
valor_col_of_sem_exato(columns) ==
    FirstIdx(Len(columns), LAMBDA i : Contains(columns[i], PAT_VALOR))

\* valor_col: the exact label, else the first column whose name holds 'Valor';
\* 0 when there is none.  (The columns the function adds hold none of the
\* patterns it searches for, so the searches run over the parsed header.)
valor_col_of(columns) ==
    LET exact == FirstIdx(Len(columns), LAMBDA i : columns[i] = VALOR_EXATO)
    IN IF exact # 0 THEN exact
       ELSE FirstIdx(Len(columns), LAMBDA i : Contains(columns[i], PAT_VALOR))

\* df[valor_col].astype(str).str.replace(',', '.').str.replace('€', '')
\*   .str.replace(' ', ''), then pd.to_numeric(..., errors='coerce')
venda_bruta_of(cell) ==
    LET text == IF cell = NaN THEN STR_NAN ELSE cell
    IN to_numeric(Replace(Replace(Replace(text, ",", <<".">>), "€", <<>>), " ", <<>>))

\* df.filter(regex=...): the first column whose name holds one of the patterns,
\* 0 when there is none (and .iloc[:, 0] then raises IndexError)
filter_first(columns, pats) ==
    FirstIdx(Len(columns), LAMBDA i : \E p \in pats : Contains(columns[i], p))

\* doc_col: 'Doc.' if it is a column, else the first column holding 'Doc' or
\* 'Document'; 0 when there is none (doc_col = None)
doc_col_of(columns) ==
    LET exact == FirstIdx(Len(columns), LAMBDA i : columns[i] = COL_DOC)
    IN IF exact # 0 THEN exact
       ELSE FirstIdx(Len(columns), LAMBDA i : \/ Contains(columns[i], PAT_DOC)
                                             \/ Contains(columns[i], PAT_DOCUMENT))

\* .fillna(placeholder).astype(str)
fillna(cell, placeholder) == IF cell = NaN THEN placeholder ELSE cell

\* def valor_liquido(row)
valor_liquido(venda_bruta, documento) ==
    IF venda_bruta.nan \/ venda_bruta.v <= 0 THEN Num(0)
    ELSE IF Contains(Upper(documento), NC) THEN Num(0 - venda_bruta.v)
    ELSE venda_bruta

\* df.dropna(subset=['data_venda', 'venda_liquida']) keeps the row
dropna_keeps(row) == ~row.data_venda.nat /\ ~row.venda_liquida.nan

\* anulacao_cols = df.filter(like='anulação').columns; 0 when empty
anulacao_col_of(columns) == filter_first(columns, {PAT_ANULACAO})

\* the same mask with == '' in place of != ''
anulada_invertida(cell) == cell # NaN /\ cell = <<>>

\* anuladas = df_clean[col].notna() & (df_clean[col] != '')
anulada(cell) == cell # NaN /\ cell # <<>>

\* except Exception as e: every exception the body can raise is an Exception
Catches(exc) == exc \in {"IndexError", "AttributeError", "EmptyDataError"}

SixColumns == <<"data_venda", "FAMILIA", "documento", "vendedor", "cliente",
                "venda_liquida">>

\* pd.DataFrame()
EmptyDataFrame == [columns |-> <<>>, rows |-> <<>>]

\* the same test on the columns alone
DfEmpty_so_colunas(table) == table.columns = <<>>

\* DataFrame.empty
DfEmpty(table) == table.columns = <<>> \/ table.rows = <<>>

\* df_clean[[...six columns...]]
project(row) ==
    [idx |-> row.idx, data_venda |-> row.data_venda, FAMILIA |-> row.FAMILIA,
     documento |-> row.documento, vendedor |-> row.vendedor,
     cliente |-> row.cliente, venda_liquida |-> row.venda_liquida]

\* The locals of a call that has not got to them.
NoLocals ==
    [outcome |-> "none", exc |-> "", error |-> "", error_col |-> <<>>,
     content |-> <<>>, data_lines |-> <<>>, sep |-> "", columns |-> <<>>,
     valor_col |-> <<>>, doc_col |-> <<>>, rows |-> <<>>,
     n_lines |-> 0, n_bad_lines |-> 0, n_anuladas |-> 0, ret |-> EmptyDataFrame]

\* the exception lines 74-93 raise for a header without the column: .iloc[:, 0]
\* of an empty selection (lines 74, 92, 93), ''.astype (line 89)
missing_column_exception(j) ==
    IF j.fam = 0 THEN "IndexError"
    ELSE IF j.doc = 0 THEN "AttributeError"
    ELSE IF j.vend = 0 THEN "IndexError"
    ELSE IF j.cli = 0 THEN "IndexError"
    ELSE ""

\* the column of each field, 0 for none
resolve_columns(columns) ==
    [date |-> date_column(columns),
     valor |-> valor_col_of(columns),
     fam |-> filter_first(columns, {PAT_FAMILIA}),
     doc |-> doc_col_of(columns),
     vend |-> filter_first(columns, {PAT_VENDEDOR}),
     cli |-> filter_first(columns, {PAT_NOME, PAT_CLIENTE}),
     anul |-> anulacao_col_of(columns)]

\* one row of df after lines 53-103; j holds the column of each field
row_of(i, cells, j, venda_bruta, documento) ==
    [idx |-> i,
     data_venda |-> to_datetime(cells[j.date]),
     venda_bruta |-> venda_bruta,
     FAMILIA |-> fillna(cells[j.fam], SEM_FAMILIA),
     documento |-> documento,
     vendedor |-> fillna(cells[j.vend], SEM_VENDEDOR),
     cliente |-> fillna(cells[j.cli], SEM_CLIENTE),
     venda_liquida |-> valor_liquido(venda_bruta, documento),
     anulacao |-> IF j.anul = 0 THEN NaN ELSE cells[j.anul]]

\* The body of the try block (lines 26-118), on the text read from the upload.
process_body(content) ==
    Let(data_lines_of(lines_of(content)), LAMBDA data_lines :
    Let(csv_content_of(data_lines), LAMBDA csv_content :
    Let(detect_sep(csv_content), LAMBDA sep :
    Let([NoLocals EXCEPT !.content = content, !.data_lines = data_lines, !.sep = sep],
        LAMBDA l1 :
    IF sep = ""
    THEN \* st.error("Formato CSV não reconhecido"); return pd.DataFrame()
         [l1 EXCEPT !.outcome = "formato", !.error = "Formato CSV não reconhecido"]
    ELSE
    Let(read_csv(csv_content, sep), LAMBDA parsed :
    Let(clean_columns(parsed.columns), LAMBDA columns :
    Let(resolve_columns(columns), LAMBDA j :
    Let([l1 EXCEPT !.columns = columns, !.n_lines = parsed.n_lines,
                   !.n_bad_lines = parsed.n_bad_lines], LAMBDA l2 :
    IF j.valor = 0
    THEN \* st.error(f"Coluna '{valor_col}' não encontrada"); return pd.DataFrame()
         [l2 EXCEPT !.outcome = "coluna", !.error = "Coluna não encontrada",
                    !.error_col = VALOR_EXATO]
    ELSE
    Let(missing_column_exception(j), LAMBDA exc :
    IF exc # ""
    THEN \* except Exception as e: st.error(...); return pd.DataFrame()
         [l2 EXCEPT !.outcome = "exception", !.exc = exc,
                    !.valor_col = columns[j.valor],
                    !.error = IF Catches(exc) THEN "Erro processamento" ELSE ""]
    ELSE
    \* lines 53-103: the derived columns of every row
    Let([i \in 1..Len(parsed.rows) |->
           row_of(i, parsed.rows[i], j, venda_bruta_of(parsed.rows[i][j.valor]),
                  fillna(parsed.rows[i][j.doc], <<>>))], LAMBDA rows :
    \* line 106: df_clean = df.dropna(subset=['data_venda', 'venda_liquida'])
    Let(SelectIdx(Len(rows), LAMBDA i : dropna_keeps(rows[i])), LAMBDA kept :
    \* lines 109-113: df_clean = df_clean[~anuladas]
    Let(IF j.anul = 0 THEN kept
        ELSE SelectSeq(kept, LAMBDA i : ~anulada(rows[i].anulacao)), LAMBDA live :
    [l2 EXCEPT !.outcome = "ok",
               !.valor_col = columns[j.valor],
               !.doc_col = columns[j.doc],
               !.rows = rows,
               !.n_anuladas = Len(kept) - Len(live),
               !.ret = [columns |-> SixColumns,
                        rows |-> [k \in 1..Len(live) |-> project(rows[live[k]])]]]
    ))))))))))))

\* def process_uploaded_file(uploaded_file), without the cache around it;
\* bytes is what uploaded_file.read() returns
process_uploaded_file(is_none, bytes) ==
    IF is_none THEN [NoLocals EXCEPT !.outcome = "no_file"]
    ELSE process_body(bytes)

(***************************************************************************)
(* The uploads of the model: exports with the conventional header labels,  *)
(* varied in their header, delimiter, directive line, line breaks and      *)
(* rows.                                                                   *)
(***************************************************************************)
N_FAMILIA ==
    <<"F", "a", "m", "í", "l", "i", "a", " ", "[", "A", "r", "t", "i", "g",
      "o", "s", "]">>
N_NOME ==
    <<"N", "o", "m", "e", " ", "[", "C", "l", "i", "e", "n", "t", "e", "s",
      "]">>
N_ANULACAO ==
    <<"M", "o", "t", "i", "v", "o", " ", "d", "e", " ", "a", "n", "u", "l",
      "a", "ç", "ã", "o", " ", "d", "o", " ", "d", "o", "c", "u", "m", "e",
      "n", "t", "o">>
N_VALOR_TOTAL == <<"V", "a", "l", "o", "r", " ", "T", "o", "t", "a", "l">>
N_VALOR_MINUSCULO == <<"v", "a", "l", "o", "r">>
N_DOCUMENTO == <<"D", "o", "c", "u", "m", "e", "n", "t", "o">>
N_DATA_ESPACOS == <<" ", "D", "a", "t", "a", " ">>
N_TERCEIRO == <<"T", "e", "r", "c", "e", "i", "r", "o">>
SEP_COMMA == <<"s", "e", "p", "=", ",">>
SEP_SEMICOLON == <<"s", "e", "p", "=", ";">>
D_0103 == <<"0", "1", "-", "0", "3", "-", "2", "0", "2", "4">>
D_1503 == <<"1", "5", "-", "0", "3", "-", "2", "0", "2", "4">>
D_3113 == <<"3", "1", "-", "1", "3", "-", "2", "0", "2", "4">>

\* The rows a generated file draws from: date, family, document code,
\* salesperson, customer, amount, cancellation reason.
RowChoices ==
    {
      <<D_0103, <<"E">>, <<"F", "T">>, <<"A">>, <<"J">>, <<"1", "0", "0">>, <<>>>>,
      <<D_0103, <<"E">>, <<"N", "C">>, <<"A">>, <<"J">>, <<"\"", "2", "0", ",", "0", "0", "\"">>, <<>>>>,
      <<D_1503, <<"E">>, <<"N", "D">>, <<"A">>, <<"J">>, <<"3", "0">>, <<>>>>,
      <<D_1503, <<>>, <<"n", "c", "a">>, <<"A">>, <<"J">>, <<"5">>, <<>>>>,
      <<D_0103, <<"E">>, <<"F", "T">>, <<"A">>, <<"J">>, <<"\"", "0", ",", "0", "0", "\"">>, <<>>>>,
      <<D_0103, <<"E">>, <<"F", "T">>, <<"A">>, <<"J">>, <<"a", "b", "c">>, <<>>>>,
      <<D_3113, <<"E">>, <<"F", "T">>, <<"A">>, <<"J">>, <<"1", "0", "0">>, <<>>>>,
      <<D_0103, <<"E">>, <<"F", "T">>, <<"A">>, <<"J">>, <<"1", "0", "0">>, <<"e", "r", "r", "o">>>>,
      <<D_1503, <<"E">>, <<"N", "C">>, <<"A">>, <<"J">>, <<"1", "0", "0">>, <<"N", "A">>>>,
      <<D_0103, <<"E">>, <<"F", "T">>, <<"A">>, <<"J">>, <<"1", ",", "5">>, <<>>>>,
      <<D_3113, <<"E">>, <<"N", "C">>, <<"A">>, <<"J">>, <<"0">>, <<"e", "r", "r", "o">>>>,
      <<D_1503, <<"E">>, <<"F", "T", "S">>, <<"A">>, <<"J">>, <<"\"", "€", " ", "2", ",", "5", "0", "\"">>, <<" ">>>>
    }

\* The two rows of the files that vary the header; the eighth cell is the
\* value of an extra column.
FixedRows ==
    << <<D_0103, <<"E">>, <<"F", "T">>, <<"A">>, <<"J">>, <<"1", "0", "0">>, <<>>, <<"7">> >>,
       <<D_1503, <<"E">>, <<"N", "C">>, <<"A">>, <<"J">>, <<"2", "0">>,
         <<"e", "r", "r", "o">>, <<"7">> >> >>

\* A header: its column names, each with the cell of the row it holds.
FullHeader ==
    << [name |-> COL_DATA, k |-> 1], [name |-> N_FAMILIA, k |-> 2],
       [name |-> COL_DOC, k |-> 3], [name |-> PAT_VENDEDOR, k |-> 4],
       [name |-> N_NOME, k |-> 5], [name |-> VALOR_EXATO, k |-> 6],
       [name |-> N_ANULACAO, k |-> 7] >>

Drop(h, j) == [i \in 1..(Len(h) - 1) |-> IF i < j THEN h[i] ELSE h[i + 1]]
Rename(h, j, name) == [h EXCEPT ![j].name = name]

HeaderVariants ==
    {FullHeader}
    \cup {Drop(FullHeader, j) : j \in 1..Len(FullHeader)}
    \cup {Rename(FullHeader, 6, N_VALOR_TOTAL), Rename(FullHeader, 6, N_VALOR_MINUSCULO),
          Rename(FullHeader, 3, N_DOCUMENTO), Rename(FullHeader, 1, N_DATA_ESPACOS),
          Rename(FullHeader, 5, N_TERCEIRO),
          SubSeq(FullHeader, 1, 5) \o <<[name |-> N_VALOR_TOTAL, k |-> 8]>>
              \o SubSeq(FullHeader, 6, 7)}

HeaderLine(h, delim) == Join([j \in 1..Len(h) |-> h[j].name], <<delim>>)
RowLine(h, cells, delim) == Join([j \in 1..Len(h) |-> cells[h[j].k]], <<delim>>)

Layouts == {"lf", "bsn_first", "bsn"}
Directives == {<<>>, <<SEP_COMMA>>, <<SEP_SEMICOLON>>}

\* The text of a file: its lines ended by line feeds ("lf"), by the two
\* characters backslash-n ("bsn"), or the first by backslash-n and the
\* others by line feeds ("bsn_first").
Assemble(layout, lines) ==
    IF layout = "lf" THEN Join(lines, <<LF>>) \o <<LF>>
    ELSE IF layout = "bsn" THEN Join(lines, BSN) \o BSN
    ELSE IF Len(lines) = 1 THEN lines[1] \o BSN
    ELSE lines[1] \o BSN \o Join(Tail(lines), <<LF>>) \o <<LF>>

HeaderFiles ==
    { Assemble(layout, dir \o <<HeaderLine(h, delim), RowLine(h, FixedRows[1], delim),
                                RowLine(h, FixedRows[2], delim)>>) :
        layout \in Layouts, dir \in Directives, delim \in {",", ";"},
        h \in HeaderVariants }

RowFiles ==
    { Assemble("bsn_first",
               <<SEP_COMMA, HeaderLine(FullHeader, ",")>>
               \o [i \in 1..Len(rs) |-> RowLine(FullHeader, rs[i], ",")]) :
        rs \in UNION {[1..n -> RowChoices] : n \in 0..MaxRows} }

Inputs == HeaderFiles \cup RowFiles

(***************************************************************************)
(* The script.  Streamlit runs main() from the top on every interaction;   *)
(* st.session_state, the cache of st.cache_data and the uploaded file      *)
(* object live across the runs of a session.                               *)
(***************************************************************************)
NoFile == [none |-> TRUE, content |-> <<>>, pos |-> 0]
File(content) == [none |-> FALSE, content |-> content, pos |-> 0]

\* uploaded_file.read(): the bytes from the read position to the end;
\* .decode('latin1') maps each byte to the character of the same code
read(file) == SubSeq(file.content, file.pos + 1, Len(file.content))

DateKey(date) == 10000 * date.y + 100 * date.m + date.d

DEFAULT_DOCS ==
    { <<"F", "T">>, <<"F", "T", "S">>, <<"N", "C">>, <<"F", "T", "P">> }

RECURSIVE SumLiquida(_)
\* df_filtered['venda_liquida'].sum()
SumLiquida(rows) ==
    IF rows = <<>> THEN 0 ELSE Head(rows).venda_liquida.v + SumLiquida(Tail(rows))

Init ==
    /\ uploaded_file \in {NoFile} \cup {File(c) : c \in Inputs}
    /\ pc = "start"
    /\ df = EmptyDataFrame
    /\ session_df = [set |-> FALSE, table |-> EmptyDataFrame]
    /\ cache = [valid |-> FALSE, value |-> EmptyDataFrame]
    /\ last = NoLocals
    /\ propagated = FALSE
    /\ runs = 1
    /\ calls = 0
    /\ first_ret = EmptyDataFrame
    /\ df_filtered = EmptyDataFrame
    /\ valor_total = 0

\* if uploaded_file is None: st.info(...); st.stop()
StopNoUpload ==
    /\ pc = "start"
    /\ uploaded_file.none
    /\ pc' = "stopped"
    /\ UNCHANGED <<uploaded_file, df, session_df, cache, last, propagated, runs,
                   calls, first_ret, df_filtered, valor_total>>

\* df = process_uploaded_file(uploaded_file), the cache holding no entry:
\* the body runs, reads the file from its position to its end, and its
\* return value is cached
CallProcess ==
    /\ pc = "start"
    /\ ~uploaded_file.none
    /\ ~cache.valid
    /\ LET r == process_uploaded_file(uploaded_file.none, read(uploaded_file))
           escapes == r.outcome = "exception" /\ ~Catches(r.exc)
       IN /\ uploaded_file' = [uploaded_file EXCEPT !.pos = Len(uploaded_file.content)]
          /\ last' = r
          /\ propagated' = escapes
          /\ calls' = calls + 1
          /\ IF escapes
             THEN /\ pc' = "crashed"
                  /\ UNCHANGED <<df, cache, first_ret>>
             ELSE /\ pc' = "gate"
                  /\ df' = r.ret
                  /\ cache' = [valid |-> TRUE, value |-> r.ret]
                  /\ first_ret' = IF calls = 0 THEN r.ret ELSE first_ret
    /\ UNCHANGED <<session_df, runs, df_filtered, valor_total>>

\* df = process_uploaded_file(uploaded_file), the cache holding the entry:
\* the cached value is returned and the body does not run
CallProcessCached ==
    /\ pc = "start"
    /\ ~uploaded_file.none
    /\ cache.valid
    /\ df' = cache.value
    /\ calls' = calls + 1
    /\ first_ret' = IF calls = 0 THEN cache.value ELSE first_ret
    /\ pc' = "gate"
    /\ UNCHANGED <<uploaded_file, session_df, cache, last, propagated, runs,
                   df_filtered, valor_total>>

\* @st.cache_data(ttl=3600): the entry expires
ExpireCache ==
    /\ pc \in {"stopped", "done"}
    /\ cache.valid
    /\ cache' = [valid |-> FALSE, value |-> EmptyDataFrame]
    /\ UNCHANGED <<uploaded_file, pc, df, session_df, last, propagated, runs,
                   calls, first_ret, df_filtered, valor_total>>

\* if df.empty: st.error(...); st.stop()
StopEmpty ==
    /\ pc = "gate"
    /\ DfEmpty(df)
    /\ pc' = "stopped"
    /\ UNCHANGED <<uploaded_file, df, session_df, cache, last, propagated, runs,
                   calls, first_ret, df_filtered, valor_total>>

\* st.session_state.df = df
AssignSession ==
    /\ pc = "gate"
    /\ ~DfEmpty(df)
    /\ session_df' = [set |-> TRUE, table |-> df]
    /\ pc' = "filters"
    /\ UNCHANGED <<uploaded_file, df, cache, last, propagated, runs, calls,
                   first_ret, df_filtered, valor_total>>

\* FILTROS: the period and the document selection (the family and salesperson
\* selections are left empty, which filters nothing)
Filters ==
    /\ pc = "filters"
    /\ LET keys == {DateKey(df.rows[i].data_venda) : i \in 1..Len(df.rows)}
       IN \E start \in keys, end \in keys :
            /\ start <= end
            /\ LET in_range(row) == /\ DateKey(row.data_venda) >= start
                                    /\ DateKey(row.data_venda) <= end
                   by_date == SelectSeq(df.rows, in_range)
                   doc_opts == {by_date[i].documento : i \in 1..Len(by_date)}
                   default_docs == DEFAULT_DOCS \cap doc_opts
               IN \E selected_docs \in {default_docs, {}} :
                    LET chosen(row) == row.documento \in selected_docs
                    IN df_filtered' =
                         [columns |-> df.columns,
                          rows |-> IF selected_docs # {}
                                   THEN SelectSeq(by_date, chosen)
                                   ELSE by_date]
    /\ pc' = "kpis"
    /\ UNCHANGED <<uploaded_file, df, session_df, cache, last, propagated, runs,
                   calls, first_ret, valor_total>>

\* KPIs
KPIs ==
    /\ pc = "kpis"
    /\ valor_total' = SumLiquida(df_filtered.rows)
    /\ pc' = "tabs"
    /\ UNCHANGED <<uploaded_file, df, session_df, cache, last, propagated, runs,
                   calls, first_ret, df_filtered>>

\* VISUALIZAÇÕES: the five tabs draw df_filtered and change nothing
Tabs ==
    /\ pc = "tabs"
    /\ pc' = "export"
    /\ UNCHANGED <<uploaded_file, df, session_df, cache, last, propagated, runs,
                   calls, first_ret, df_filtered, valor_total>>

\* TABELA E EXPORT
Export ==
    /\ pc = "export"
    /\ pc' = "done"
    /\ UNCHANGED <<uploaded_file, df, session_df, cache, last, propagated, runs,
                   calls, first_ret, df_filtered, valor_total>>

\* An interaction reruns the script from the top; its locals start afresh.
Rerun ==
    /\ pc \in {"stopped", "done"}
    /\ runs < MaxRuns
    /\ runs' = runs + 1
    /\ pc' = "start"
    /\ df' = EmptyDataFrame
    /\ df_filtered' = EmptyDataFrame
    /\ valor_total' = 0
    /\ UNCHANGED <<uploaded_file, session_df, cache, last, propagated, calls,
                   first_ret>>

Next ==
    \/ StopNoUpload
    \/ CallProcess
    \/ CallProcessCached
    \/ ExpireCache
    \/ StopEmpty
    \/ AssignSession
    \/ Filters
    \/ KPIs
    \/ Tabs
    \/ Export
    \/ Rerun

Spec == Init /\ [][Next]_vars

(***************************************************************************)
(* The claims.  `last` holds the locals of the last executed body of       *)
(* process_uploaded_file: its rows are the rows of df, its ret the table   *)
(* returned; ret.rows[k].idx names the row of df a returned record comes   *)
(* from.                                                                   *)
(***************************************************************************)
Executed == last.outcome \notin {"none", "no_file"}

\* the debit/credit-note codes of the specification
NOTE_CODES ==
    { <<"N", "C">>, <<"N", "C", "A">>, <<"N", "C", "M">>, <<"N", "C", "S">>,
      <<"N", "F", "I">>, <<"Q", "U", "E">>, <<"N", "D">> }

\* the lines the specification's sanitizer keeps: the text cut at line feeds,
\* without the lines that begin with sep= and the whitespace-only lines
SanitizedLines(content) ==
    SelectSeq(Split(content, <<LF>>),
              LAMBDA line : Strip(line) # <<>> /\ ~StartsWith(line, SEP_PREFIX))

\* C1: every returned record has a negative net amount exactly when its
\* document code, upper-cased, is one of NC, NCA, NCM, NCS, NFI, QUE, ND; every
\* other returned record has its parsed gross amount as net amount, above zero.
C1_SignInvariant ==
    \A k \in 1..Len(last.ret.rows) :
        LET rec == last.ret.rows[k]
            note == Upper(rec.documento) \in NOTE_CODES
        IN /\ (rec.venda_liquida.v < 0) <=> note
           /\ ~note => /\ rec.venda_liquida = last.rows[rec.idx].venda_bruta
                       /\ rec.venda_liquida.v > 0

\* C2: a row whose amount is unparseable or not above zero has no record in the
\* returned table; no returned record has a net amount of zero.
C2_NonPositiveRejected ==
    /\ \A i \in 1..Len(last.rows) :
          (last.rows[i].venda_bruta.nan \/ last.rows[i].venda_bruta.v <= 0)
          => \A k \in 1..Len(last.ret.rows) : last.ret.rows[k].idx # i
    /\ \A k \in 1..Len(last.ret.rows) : last.ret.rows[k].venda_liquida.v # 0

C4_RowAccounting ==
    last.outcome = "ok" =>
        Len(last.ret.rows)
        + Len(SelectSeq(last.rows, LAMBDA row : ~dropna_keeps(row)))
        + last.n_anuladas
        + last.n_bad_lines
        = Len(SanitizedLines(last.content)) - 1

\* the text after the directive line sep=; and its line break, when the file
\* opens with that line
AfterDirective(content) ==
    IF StartsWith(content, SEP_SEMICOLON \o <<LF>>)
    THEN SubSeq(content, Len(SEP_SEMICOLON) + 2, Len(content))
    ELSE SubSeq(content, Len(SEP_SEMICOLON) + 3, Len(content))

\* C5: a file that opens with the directive line sep=; followed by a header and
\* rows delimited by semicolons is parsed with ';', and the parsed table has one
\* column for each field of the header.
C5_DelimiterDetection ==
    ( /\ Executed
      /\ \/ StartsWith(last.content, SEP_SEMICOLON \o <<LF>>)
         \/ StartsWith(last.content, SEP_SEMICOLON \o BSN)
      /\ ~Contains(AfterDirective(last.content), BSN)
      /\ Contains(Split(AfterDirective(last.content), <<LF>>)[1], <<";">>)
      /\ ~Contains(AfterDirective(last.content), <<",">>) )
    => /\ last.sep = ";"
       /\ Len(last.columns)
          = Len(Split(Split(AfterDirective(last.content), <<LF>>)[1], <<";">>))

\* C6: the lines handed to the parser are the lines of the input, cut at line
\* feeds and in order, without the lines that begin with sep= and the
\* whitespace-only lines; without a directive the first line stays.
C6_LineSanitization ==
    Executed => last.data_lines = SanitizedLines(last.content)

\* C7: a header with date and amount columns that lacks the column of an
\* optional field (family, salesperson, customer, document code) does not fail
\* the file: the rows that pass are returned, the missing field a placeholder.
C7_OptionalColumnsAbsent ==
    LET j == resolve_columns(last.columns)
    IN (last.sep # "" /\ j.valor # 0) =>
          /\ last.outcome = "ok"
          /\ \A k \in 1..Len(last.ret.rows) :
                LET rec == last.ret.rows[k]
                IN /\ j.fam = 0 => rec.FAMILIA = SEM_FAMILIA
                   /\ j.vend = 0 => rec.vendedor = SEM_VENDEDOR
                   /\ j.cli = 0 => rec.cliente = SEM_CLIENTE
                   /\ j.doc = 0 => rec.documento = <<>>

\* C8: when no parsed header is the exact label or holds 'valor', the call fails
\* with the column-missing error that names the amount column and returns the
\* empty table; when the exact label is a header, it is the amount column, over
\* any other header that holds 'valor'.
C8_RequiredAmountColumn ==
    last.sep # "" =>
        /\ (\A c \in 1..Len(last.columns) :
               /\ last.columns[c] # VALOR_EXATO
               /\ ~Contains(Upper(last.columns[c]), Upper(PAT_VALOR)))
           => /\ last.outcome = "coluna"
              /\ last.error = "Coluna não encontrada"
              /\ last.error_col = VALOR_EXATO
              /\ last.ret = EmptyDataFrame
        /\ (\E c \in 1..Len(last.columns) : last.columns[c] = VALOR_EXATO)
           => /\ last.outcome \in {"ok", "exception"}
              /\ last.valor_col = VALOR_EXATO

\* C8 happens: a parsed header without an amount column failed the call.
C8_Witness ==
    /\ last.sep # ""
    /\ last.columns # <<>>
    /\ last.outcome = "coluna"
    /\ pc = "stopped"

\* C9: a second call on the same input, the same uploaded-file object after the
\* first call has read it included, with or without a cache hit, returns the
\* table the first call returned.
C9_Idempotence ==
    (pc = "gate" /\ calls >= 2) => df = first_ret

\* C10: process_uploaded_file lets no exception out; a failed call returns the
\* empty table and any other call a table of exactly the six columns; the
\* filter, KPI, chart and export stages run only on a table with rows, and
\* st.session_state.df is assigned only at the gate, to such a table.
C10_FailureGating ==
    /\ [](/\ ~propagated
          /\ pc # "crashed"
          /\ last.outcome \in {"formato", "coluna", "exception", "no_file"}
             => last.ret = EmptyDataFrame
          /\ last.outcome = "ok" => last.ret.columns = SixColumns
          /\ pc \in {"filters", "kpis", "tabs", "export", "done"}
             => /\ calls >= 1
                /\ df.rows # <<>>
                /\ df.columns = SixColumns)
    /\ [][session_df' # session_df
          => /\ pc = "gate"
             /\ df.rows # <<>>
             /\ session_df' = [set |-> TRUE, table |-> df]]_vars

\* C10 happens: a call failed on an exception, returned the empty table, and
\* main stopped with st.session_state.df unassigned.
C10_Witness ==
    /\ last.outcome = "exception"
    /\ pc = "stopped"
    /\ ~session_df.set

====
